---- MODULE Spec2Model ----
(***************************************************************************)
(* A model of keg's CDN cache layer (keg/cdn.py) and of the Keg            *)
(* orchestrator (keg/__init__.py).                                         *)
(*                                                                         *)
(* Strings are sequences of tokens: a character of a content key is one    *)
(* token, and so is each literal the code splices in ("/", "config",       *)
(* "data", ".index", ".keg_temp").  The file system is a name table over   *)
(* inodes, so that an open file descriptor keeps following its inode when  *)
(* the name is renamed or the file is truncated by another open().         *)
(***************************************************************************)
EXTENDS Integers, Sequences, FiniteSets, TLC

(* ----------------------------- bounds -------------------------------- *)

\* HTTP GETs issued by RemoteCDN.get_item in one behaviour.
MaxGets == 2

\* Largest n a caller passes to HTTPCacheWrapper.read(n).
MaxChunk == 1

\* Requests HttpBackend sends in one behaviour.
MaxFetches == 2

\* Longest key partition_hash is applied to on its own.
MaxKeyLen == 5

Procs == {"p1", "p2"}

\* Content keys the callers ask for (hex strings of at least 4 characters).
Keys == {<<"a", "b", "c", "d">>}

\* Bodies the origin may serve for a GET (0 is kept for the bytes of a hole).
Bodies == {<<1, 2>>, <<3>>}

(* ------------------------ pure path functions ------------------------- *)

Max(a, b) == IF a >= b THEN a ELSE b

Min(a, b) == IF a <= b THEN a ELSE b

\* partition_hash without the key at the end: the two directories only.
partition_hash_Dirs(hash) ==
    SubSeq(hash, 1, Min(2, Len(hash))) \o <<"/">> \o
    SubSeq(hash, 3, Min(4, Len(hash))) \o <<"/">>

\* partition_hash(hash) = f"{hash[0:2]}/{hash[2:4]}/{hash}" (Python slices
\* clip at the end of the string).
partition_hash(hash) ==
    SubSeq(hash, 1, Min(2, Len(hash))) \o <<"/">> \o
    SubSeq(hash, 3, Min(4, Len(hash))) \o <<"/">> \o hash

ConfigPath(key) == <<"/", "config", "/">> \o partition_hash(key)

DataPath(key) == <<"/", "data", "/">> \o partition_hash(key)

IndexPath(key) == <<"/", "data", "/">> \o partition_hash(key) \o <<".index">>

\* The paths BaseCDN's derived operations hand to get_item.
ItemPaths == UNION {{ConfigPath(k), DataPath(k), IndexPath(k)} : k \in Keys}

\* str.lstrip("/")
RECURSIVE lstrip(_)
lstrip(s) == IF s # << >> /\ Head(s) = "/" THEN lstrip(Tail(s)) ELSE s

base_dir == <<"cache">>

\* os.path.join(a, b) for a relative b
path_join(a, b) ==
    IF a = << >> THEN b
    ELSE IF a[Len(a)] = "/" THEN a \o b
    ELSE a \o <<"/">> \o b

\* LocalCDN.get_full_path
get_full_path(path) == path_join(base_dir, lstrip(path))

SlashAt(s) == {i \in 1..Len(s) : s[i] = "/"}

SetMax(S) == CHOOSE x \in S : \A y \in S : y <= x

SetMin(S) == CHOOSE x \in S : \A y \in S : x <= y

\* os.path.dirname
dirname(p) ==
    IF SlashAt(p) = {} THEN << >> ELSE SubSeq(p, 1, SetMax(SlashAt(p)) - 1)

\* The directories os.makedirs(d) makes sure exist: d and its ancestors.
makedirs(d) ==
    {SubSeq(d, 1, i - 1) : i \in SlashAt(d) \cup {Len(d) + 1}} \ {<< >>}

\* The writer opening the destination itself: no temp file.
temp_path_Same(path) == path

\* self._temp_path = path + ".keg_temp"
temp_path(path) == path \o <<".keg_temp">>

\* RemoteCDN: cdn.all_servers and cdn.path of the CDN descriptor.
all_servers == <<"s1", "s2">>

cdn_path == <<"tpr", "/", "hs">>

\* url = f"{self.server}/{self.path}{path}" with server = all_servers[0]
Url(path) == <<all_servers[1], "/">> \o cdn_path \o path

(* ------------------------------ state --------------------------------- *)

VARIABLES
    dirs,       \* directories that exist
    names,      \* file system: file path -> inode number
    inodes,     \* inode number -> content (a sequence of bytes)
    http_log,   \* the GETs RemoteCDN.get_item issued: [url, ok, status, body]
    pc,         \* per process: where it is in its current call
    req,        \* per process: the call it runs [path, mode, miss, g0]
    obj,        \* per process: HTTPCacheWrapper._obj, the upstream stream
    cf,         \* per process: HTTPCacheWrapper._cache_file [ino, off]
    rbuf,       \* per process: the bytes read() got and has yet to tee
    ret,        \* per process: what its last call returned or raised
    published,  \* history: destination path -> body of the writer that renamed
    hist,       \* history: per process, the outcome of the call before this one
    db,         \* Keg.cache_db as the connection sees it: [rows, responses]
    committed,  \* Keg.cache_db as committed
    state_cache, \* the orchestrator's disk cache: <<dir, path, digest>> -> blob
    net_calls,  \* requests HttpBackend sent
    clock,      \* the time response.timestamp is read from
    kret        \* what the last Keg call returned or raised (live: requests it sent)

cdn_vars == <<dirs, names, inodes, http_log, pc, req, obj, cf, rbuf, ret,
              published, hist>>

keg_vars == <<db, committed, state_cache, net_calls, clock, kret>>

vars == <<cdn_vars, keg_vars>>

exists(path) == get_full_path(path) \in DOMAIN names

Content(file) == inodes[names[file]]

\* Bytes `data` written at offset `off` of a file holding `c`; a write past
\* the end leaves a hole of zero bytes.
WriteAt(c, off, data) ==
    [i \in 1..Max(Len(c), off + Len(data)) |->
        IF i > off /\ i <= off + Len(data) THEN data[i - off]
        ELSE IF i <= Len(c) THEN c[i]
        ELSE 0]

FreeIno == SetMin({i \in 1..(Cardinality(DOMAIN inodes) + 1) : i \notin DOMAIN inodes})

\* Inodes that a name or an open descriptor still refers to.
LiveInos(nm, fds) ==
    {nm[f] : f \in DOMAIN nm} \cup ({fds[p].ino : p \in Procs} \ {0})

Gc(ino, nm, fds) == [i \in DOMAIN ino \cap LiveInos(nm, fds) |-> ino[i]]

Gets(path) == Cardinality({i \in 1..Len(http_log) : http_log[i].url = Url(path)})

NoObj == [body |-> << >>, pos |-> 0, st |-> "none"]

\* No open cache file (inode numbers start at 1).
NoCf == [ino |-> 0, off |-> 0]

NoReq == [path |-> << >>, mode |-> "none", miss |-> FALSE, g0 |-> 0]

NoRet == [op |-> "none"]

\* CacheableCDNWrapper.__init__ has made base_dir; nothing is cached yet.
\* Keg.__init__ was handed an empty cache directory and an empty store.
Init ==
    /\ dirs = {base_dir}
    /\ names = << >>
    /\ inodes = << >>
    /\ http_log = << >>
    /\ pc = [p \in Procs |-> "idle"]
    /\ req = [p \in Procs |-> NoReq]
    /\ obj = [p \in Procs |-> NoObj]
    /\ cf = [p \in Procs |-> NoCf]
    /\ rbuf = [p \in Procs |-> << >>]
    /\ ret = [p \in Procs |-> NoRet]
    /\ published = << >>
    /\ hist = [p \in Procs |-> NoRet]
    /\ db = [rows |-> << >>, responses |-> << >>]
    /\ committed = [rows |-> << >>, responses |-> << >>]
    /\ state_cache = << >>
    /\ net_calls = 0
    /\ clock = 0
    /\ kret = NoRet

(* --------------------- CacheableCDNWrapper.get_item -------------------- *)

\* The exception leaves the call: the wrapper is dropped, which closes its
\* cache file; nothing is renamed.
Raise(self, what) ==
    /\ pc' = [pc EXCEPT ![self] = "idle"]
    /\ ret' = [ret EXCEPT ![self] = [op |-> req[self].mode, path |-> req[self].path,
                                     ok |-> FALSE, err |-> what]]
    /\ req' = [req EXCEPT ![self] = NoReq]
    /\ obj' = [obj EXCEPT ![self] = NoObj]
    /\ cf' = [cf EXCEPT ![self] = NoCf]
    /\ rbuf' = [rbuf EXCEPT ![self] = << >>]
    /\ hist' = [hist EXCEPT ![self] = NoRet]

\* get_item without the existence test: every call goes to the origin.
get_item_NoCheck(self, path) ==
    /\ pc[self] = "idle"
    /\ UNCHANGED keg_vars
    /\ req' = [req EXCEPT ![self] = [path |-> path, mode |-> "get_item",
                                     miss |-> ~exists(path), g0 |-> Gets(path)]]
    /\ pc' = [pc EXCEPT ![self] = "remote"]
    /\ hist' = [hist EXCEPT ![self] = ret[self]]
    /\ ret' = [ret EXCEPT ![self] = NoRet]
    /\ UNCHANGED <<dirs, names, inodes, http_log, obj, cf, rbuf, published>>

\* get_item, line 88: the existence test.
get_item(self, path) ==
    /\ pc[self] = "idle"
    /\ UNCHANGED keg_vars
    /\ req' = [req EXCEPT ![self] = [path |-> path, mode |-> "get_item",
                                     miss |-> ~exists(path), g0 |-> Gets(path)]]
    /\ pc' = [pc EXCEPT ![self] = IF exists(path) THEN "local" ELSE "remote"]
    /\ hist' = [hist EXCEPT ![self] = ret[self]]
    /\ ret' = [ret EXCEPT ![self] = NoRet]
    /\ UNCHANGED <<dirs, names, inodes, http_log, obj, cf, rbuf, published>>

\* A caller that streams a missing data blob through the wrapper as a
\* context manager (__enter__/__exit__), reading chunks in the scope.
with_item(self, path) ==
    /\ pc[self] = "idle"
    /\ UNCHANGED keg_vars
    /\ ~exists(path)
    /\ req' = [req EXCEPT ![self] = [path |-> path, mode |-> "with",
                                     miss |-> TRUE, g0 |-> Gets(path)]]
    /\ pc' = [pc EXCEPT ![self] = "remote"]
    /\ hist' = [hist EXCEPT ![self] = NoRet]
    /\ ret' = [ret EXCEPT ![self] = NoRet]
    /\ UNCHANGED <<dirs, names, inodes, http_log, obj, cf, rbuf, published>>

\* The status the origin answers with: body <<3>> is the body of its 404
\* page, the other body comes with 200.  requests.get does not raise on it.
status_code(body) == IF body = <<3>> THEN 404 ELSE 200

\* RemoteCDN.get_item that raises on an error status (raise_for_status).
RemoteGet_RaiseForStatus(self) ==
    /\ pc[self] = "remote"
    /\ UNCHANGED keg_vars
    /\ Len(http_log) < MaxGets
    /\ \E body \in Bodies, ok \in BOOLEAN :
          /\ http_log' = Append(http_log, [url |-> Url(req[self].path), ok |-> ok,
                                           status |-> IF ok THEN status_code(body) ELSE 0,
                                           body |-> IF ok THEN body ELSE << >>])
          /\ IF ok /\ status_code(body) = 200
             THEN /\ obj' = [obj EXCEPT ![self] = [body |-> body, pos |-> 0, st |-> "open"]]
                  /\ pc' = [pc EXCEPT ![self] = "init"]
                  /\ UNCHANGED <<req, cf, rbuf, ret, hist>>
             ELSE Raise(self, "transport")
    /\ UNCHANGED <<dirs, names, inodes, published>>

\* RemoteCDN.get_item: one streaming GET; the body is not read yet.  The GET
\* may fail (a transport error, or no content-length header at line 61).
RemoteGet(self) ==
    /\ pc[self] = "remote"
    /\ UNCHANGED keg_vars
    /\ Len(http_log) < MaxGets
    /\ \E body \in Bodies, ok \in BOOLEAN :
          /\ http_log' = Append(http_log, [url |-> Url(req[self].path), ok |-> ok,
                                           status |-> IF ok THEN status_code(body) ELSE 0,
                                           body |-> IF ok THEN body ELSE << >>])
          /\ IF ok
             THEN /\ obj' = [obj EXCEPT ![self] = [body |-> body, pos |-> 0, st |-> "open"]]
                  /\ pc' = [pc EXCEPT ![self] = "init"]
                  /\ UNCHANGED <<req, cf, rbuf, ret, hist>>
             ELSE Raise(self, "transport")
    /\ UNCHANGED <<dirs, names, inodes, published>>

(* --------------------------- HTTPCacheWrapper -------------------------- *)

\* open(path, "r+b")-like: an existing file keeps its bytes.
OpenWb_NoTrunc(file) ==
    IF file \in DOMAIN names
    THEN UNCHANGED <<names, inodes>>
    ELSE /\ inodes' = inodes @@ (FreeIno :> << >>)
         /\ names' = names @@ (file :> FreeIno)

\* open(path, "wb"): an existing file is truncated in place (same inode), a
\* missing one is created.
OpenWb(file) ==
    IF file \in DOMAIN names
    THEN /\ inodes' = [inodes EXCEPT ![names[file]] = << >>]
         /\ UNCHANGED names
    ELSE /\ inodes' = inodes @@ (FreeIno :> << >>)
         /\ names' = names @@ (file :> FreeIno)

\* HTTPCacheWrapper.__init__
WrapperInit(self) ==
    /\ pc[self] = "init"
    /\ UNCHANGED keg_vars
    /\ LET real == get_full_path(req[self].path)
           temp == temp_path(real)
       IN /\ dirs' = dirs \cup makedirs(dirname(real))
          /\ OpenWb(temp)
          /\ cf' = [cf EXCEPT ![self] = [ino |-> names'[temp], off |-> 0]]
    /\ pc' = [pc EXCEPT ![self] = IF req[self].mode = "with" THEN "scope" ELSE "drain"]
    /\ UNCHANGED <<http_log, req, obj, rbuf, ret, published, hist>>

\* self._obj.read(n) / self._obj.read(): the next n bytes, or all that is left.
ObjRead(o, n) ==
    IF n = -1 THEN SubSeq(o.body, o.pos + 1, Len(o.body))
    ELSE SubSeq(o.body, o.pos + 1, Min(o.pos + n, Len(o.body)))

\* read(n) in the scope of a `with`, lines 137-140.  A transport error raises
\* into the scope body, and __exit__ then runs close().
ScopeRead(self, n) ==
    /\ pc[self] = "scope"
    /\ UNCHANGED keg_vars
    /\ \/ /\ rbuf' = [rbuf EXCEPT ![self] = ObjRead(obj[self], n)]
          /\ obj' = [obj EXCEPT ![self].pos = @ + Len(ObjRead(obj[self], n))]
          /\ pc' = [pc EXCEPT ![self] = "scope_write"]
       \/ /\ obj[self].pos < Len(obj[self].body)
          /\ obj' = [obj EXCEPT ![self].st = "broken"]
          /\ pc' = [pc EXCEPT ![self] = "drain"]
          /\ UNCHANGED rbuf
    /\ UNCHANGED <<dirs, names, inodes, http_log, req, cf, ret, published, hist>>

\* if ret: self._cache_file.write(ret), lines 141-143
TeeWrite(self) ==
    /\ IF rbuf[self] # << >>
       THEN /\ inodes' = [inodes EXCEPT ![cf[self].ino] =
                              WriteAt(@, cf[self].off, rbuf[self])]
            /\ cf' = [cf EXCEPT ![self].off = @ + Len(rbuf[self])]
       ELSE UNCHANGED <<inodes, cf>>
    /\ rbuf' = [rbuf EXCEPT ![self] = << >>]

\* read() that returns the bytes without writing them to the cache file.
ScopeWrite_NoTee(self) ==
    /\ pc[self] = "scope_write"
    /\ UNCHANGED keg_vars
    /\ rbuf' = [rbuf EXCEPT ![self] = << >>]
    /\ pc' = [pc EXCEPT ![self] = "scope"]
    /\ UNCHANGED <<dirs, names, inodes, cf, http_log, req, obj, ret, published, hist>>

\* read(n) in the scope, lines 141-143: write what was read, then return it.
ScopeWrite(self) ==
    /\ pc[self] = "scope_write"
    /\ UNCHANGED keg_vars
    /\ TeeWrite(self)
    /\ pc' = [pc EXCEPT ![self] = "scope"]
    /\ UNCHANGED <<dirs, names, http_log, req, obj, ret, published, hist>>

\* The scope body ends, normally or by an exception of the caller's own:
\* __exit__ runs close() either way and returns False.
ScopeExit(self, raised) ==
    /\ pc[self] = "scope"
    /\ UNCHANGED keg_vars
    /\ req' = [req EXCEPT ![self].mode = IF raised THEN "with_raised" ELSE "with"]
    /\ pc' = [pc EXCEPT ![self] = "drain"]
    /\ UNCHANGED <<dirs, names, inodes, http_log, obj, cf, rbuf, ret, published, hist>>

\* close() without line 128: nothing is drained before the rename.
Drain_Skip(self) ==
    /\ pc[self] = "drain"
    /\ UNCHANGED keg_vars
    /\ pc' = [pc EXCEPT ![self] = "drain_write"]
    /\ UNCHANGED <<dirs, names, inodes, http_log, req, obj, cf, rbuf, ret, published, hist>>

\* close(), line 128: self.read() pulls all that is left upstream.  A
\* transport error propagates out of close(); a stream that failed once
\* keeps failing.
Drain(self) ==
    /\ pc[self] = "drain"
    /\ UNCHANGED keg_vars
    /\ \/ /\ obj[self].st = "open"
          /\ rbuf' = [rbuf EXCEPT ![self] = ObjRead(obj[self], -1)]
          /\ obj' = [obj EXCEPT ![self].pos = Len(obj[self].body)]
          /\ pc' = [pc EXCEPT ![self] = "drain_write"]
          /\ UNCHANGED <<req, cf, ret, hist>>
       \/ /\ obj[self].st = "broken" \/ obj[self].pos < Len(obj[self].body)
          /\ Raise(self, "read")
    /\ UNCHANGED <<dirs, http_log, published>>
    /\ names' = names
    /\ inodes' = Gc(inodes, names, cf')

DrainWrite(self) ==
    /\ pc[self] = "drain_write"
    /\ UNCHANGED keg_vars
    /\ TeeWrite(self)
    /\ pc' = [pc EXCEPT ![self] = "fclose"]
    /\ UNCHANGED <<dirs, names, http_log, req, obj, ret, published, hist>>

\* close() that leaves the temp file open when it goes on to the rename.
CacheFileClose_Late(self) ==
    /\ pc[self] = "fclose"
    /\ UNCHANGED keg_vars
    /\ pc' = [pc EXCEPT ![self] = "rename"]
    /\ UNCHANGED <<dirs, names, inodes, http_log, req, obj, cf, rbuf, ret, published, hist>>

\* close(), line 129: self._cache_file.close()
CacheFileClose(self) ==
    /\ pc[self] = "fclose"
    /\ UNCHANGED keg_vars
    /\ cf' = [cf EXCEPT ![self] = NoCf]
    /\ inodes' = Gc(inodes, names, cf')
    /\ pc' = [pc EXCEPT ![self] = "rename"]
    /\ UNCHANGED <<dirs, names, http_log, req, obj, rbuf, ret, published, hist>>

\* A copy in place of the move: the source name stays.
OsRename_Copy(src, dst) == [f \in DOMAIN names \cup {dst} |->
                               IF f = dst THEN names[src] ELSE names[f]]

\* os.rename(src, dst): dst now names src's inode, atomically.
OsRename(src, dst) == [f \in (DOMAIN names \ {src}) \cup {dst} |->
                          IF f = dst THEN names[src] ELSE names[f]]

\* close(), line 132: os.rename(self._temp_path, self._real_path); it raises
\* FileNotFoundError when the temp file is gone.
Rename(self) ==
    /\ pc[self] = "rename"
    /\ UNCHANGED keg_vars
    /\ LET real == get_full_path(req[self].path)
           temp == temp_path(real)
       IN IF temp \in DOMAIN names
          THEN /\ names' = OsRename(temp, real)
               /\ inodes' = Gc(inodes, names', cf)
               /\ published' = [f \in DOMAIN published \cup {real} |->
                                   IF f = real THEN obj[self].body ELSE published[f]]
               /\ pc' = [pc EXCEPT ![self] = "objclose"]
               /\ UNCHANGED <<req, obj, cf, rbuf, ret, hist>>
          ELSE /\ Raise(self, "FileNotFoundError")
               /\ UNCHANGED <<names, inodes, published>>
    /\ UNCHANGED <<dirs, http_log>>

\* close(), line 134: return self._obj.close().  get_item goes on to line 93;
\* a `with` ends, re-raising what its body raised.
ObjClose(self) ==
    /\ pc[self] = "objclose"
    /\ UNCHANGED keg_vars
    /\ obj' = [obj EXCEPT ![self] = NoObj]
    /\ IF req[self].mode = "get_item"
       THEN /\ pc' = [pc EXCEPT ![self] = "local"]
            /\ UNCHANGED <<req, ret>>
       ELSE /\ pc' = [pc EXCEPT ![self] = "idle"]
            /\ ret' = [ret EXCEPT ![self] = [op |-> "with", path |-> req[self].path,
                                             ok |-> req[self].mode = "with",
                                             err |-> IF req[self].mode = "with"
                                                     THEN "none" ELSE "caller"]]
            /\ req' = [req EXCEPT ![self] = NoReq]
    /\ UNCHANGED <<dirs, names, inodes, http_log, cf, rbuf, published, hist>>

\* get_item, line 93: LocalCDN.get_item opens the file "rb"; the caller
\* (fetch_config, fetch_index) reads it whole.
LocalGet(self) ==
    /\ pc[self] = "local"
    /\ UNCHANGED keg_vars
    /\ IF exists(req[self].path)
       THEN /\ ret' = [ret EXCEPT ![self] =
                          [op |-> "get_item", path |-> req[self].path, ok |-> TRUE,
                           miss |-> req[self].miss, g0 |-> req[self].g0,
                           g1 |-> Gets(req[self].path),
                           data |-> Content(get_full_path(req[self].path))]]
            /\ pc' = [pc EXCEPT ![self] = "idle"]
            /\ req' = [req EXCEPT ![self] = NoReq]
            /\ UNCHANGED <<obj, cf, rbuf, hist>>
       ELSE Raise(self, "FileNotFoundError")
    /\ UNCHANGED <<dirs, names, inodes, http_log, published>>

(* ------------------------ has_config/data/index ------------------------ *)

has_config(self, key) ==
    /\ pc[self] = "idle"
    /\ UNCHANGED keg_vars
    /\ ret' = [ret EXCEPT ![self] = [op |-> "has_config", key |-> key,
                                     val |-> exists(ConfigPath(key))]]
    /\ hist' = [hist EXCEPT ![self] = NoRet]
    /\ UNCHANGED <<dirs, names, inodes, http_log, pc, req, obj, cf, rbuf, published>>

has_data(self, key) ==
    /\ pc[self] = "idle"
    /\ UNCHANGED keg_vars
    /\ ret' = [ret EXCEPT ![self] = [op |-> "has_data", key |-> key,
                                     val |-> exists(DataPath(key))]]
    /\ hist' = [hist EXCEPT ![self] = NoRet]
    /\ UNCHANGED <<dirs, names, inodes, http_log, pc, req, obj, cf, rbuf, published>>

\* has_index looking at the data path (the ".index" suffix forgotten).
has_index_NoSuffix(self, key) ==
    /\ pc[self] = "idle"
    /\ UNCHANGED keg_vars
    /\ ret' = [ret EXCEPT ![self] = [op |-> "has_index", key |-> key,
                                     val |-> exists(DataPath(key))]]
    /\ hist' = [hist EXCEPT ![self] = NoRet]
    /\ UNCHANGED <<dirs, names, inodes, http_log, pc, req, obj, cf, rbuf, published>>

has_index(self, key) ==
    /\ pc[self] = "idle"
    /\ UNCHANGED keg_vars
    /\ ret' = [ret EXCEPT ![self] = [op |-> "has_index", key |-> key,
                                     val |-> exists(IndexPath(key))]]
    /\ hist' = [hist EXCEPT ![self] = NoRet]
    /\ UNCHANGED <<dirs, names, inodes, http_log, pc, req, obj, cf, rbuf, published>>

(* -------------------------------- crash -------------------------------- *)

\* Where in the life of the writer a step is: before it is opened, in the
\* scope of a `with`, in the release (close()) up to the rename, or after it.
Phase(l) ==
    IF l \in {"remote", "init"} THEN "before"
    ELSE IF l \in {"scope", "scope_write"} THEN "scope"
    ELSE IF l \in {"drain", "drain_write", "fclose", "rename"} THEN "release"
    ELSE "after"

\* The process dies at any step of a call.  Its descriptors are closed by
\* the system; a write in progress may have reached the disk only in part.
Crash(self) ==
    /\ pc[self] # "idle"
    /\ UNCHANGED keg_vars
    /\ \E k \in 0..Len(rbuf[self]) :
          LET ino == IF pc[self] \in {"scope_write", "drain_write"} /\ k > 0
                     THEN [inodes EXCEPT ![cf[self].ino] =
                              WriteAt(@, cf[self].off, SubSeq(rbuf[self], 1, k))]
                     ELSE inodes
          IN /\ cf' = [cf EXCEPT ![self] = NoCf]
             /\ inodes' = Gc(ino, names, cf')
    /\ pc' = [pc EXCEPT ![self] = "idle"]
    /\ ret' = [ret EXCEPT ![self] = [op |-> "crash", path |-> req[self].path,
                                     at |-> Phase(pc[self])]]
    /\ req' = [req EXCEPT ![self] = NoReq]
    /\ obj' = [obj EXCEPT ![self] = NoObj]
    /\ rbuf' = [rbuf EXCEPT ![self] = << >>]
    /\ hist' = [hist EXCEPT ![self] = NoRet]
    /\ UNCHANGED <<dirs, names, http_log, published>>

(* --------------------------------- Keg --------------------------------- *)

\* Keg(remote, cache_dir, cache_db): the fields of the one orchestrator.
self_remote == "r1"

self_cache_dir == "d1"

\* The remote and cache_dir arguments callers pass to get_cached_cdns.
Remotes == {"r1", "r2"}

CacheDirs == {"d1", "d2"}

CdnsPath == <<"/", "cdns">>

PsvPaths == {CdnsPath, <<"/", "versions">>}

\* What the remote may answer: a digest and a blob, the blob a header line
\* and the rows.  Two answers share the digest D1, as stubbed answers may.
KegResponses ==
    {[digest |-> "D1", blob |-> <<<<"Name", "Hosts">>, <<"eu", "h1">>, <<"us", "h2">>>>],
     [digest |-> "D1", blob |-> <<<<"Name", "Hosts">>, <<"cn", "h3">>>>],
     [digest |-> "D2", blob |-> <<<<"Name", "Hosts">>, <<"eu", "h1">>>>]}

Digests == {r.digest : r \in KegResponses}

\* Source.HTTP
HTTP == 1

\* psv.loads: the first line is the header, the others are the rows.
psv_loads(blob) == [header |-> Head(blob), rows |-> Tail(blob)]

\* str.rstrip("/") and str.strip("/")
RECURSIVE rstrip(_)
rstrip(s) == IF s # << >> /\ s[Len(s)] = "/" THEN rstrip(SubSeq(s, 1, Len(s) - 1)) ELSE s

strip(s) == rstrip(lstrip(s))

\* A table as a bag: row -> number of copies.
BagAdd(B, e) == IF e \in DOMAIN B THEN [B EXCEPT ![e] = @ + 1] ELSE B @@ (e :> 1)

RECURSIVE BagAddAll(_, _)
BagAddAll(B, es) == IF es = << >> THEN B ELSE BagAddAll(BagAdd(B, Head(es)), Tail(es))

\* DELETE ... where remote = ?: the key is not matched.
DeleteRows_AllKeys(rows, table_name, remote, key) ==
    [r \in {x \in DOMAIN rows : ~(x.table = table_name /\ x.remote = remote)} |-> rows[r]]

\* DELETE FROM "<table_name>" where remote = ? and key = ?
DeleteRows(rows, table_name, remote, key) ==
    [r \in {x \in DOMAIN rows :
               ~(x.table = table_name /\ x.remote = remote /\ x.key = key)} |-> rows[r]]

\* The rows numbered from 1 (enumerate(psvfile, 1)).
InsertRows_FromOne(rows, table_name, remote, key, psvfile) ==
    BagAddAll(rows, [i \in 1..Len(psvfile.rows) |->
                        [table |-> table_name, remote |-> remote, key |-> key,
                         row |-> i, header |-> psvfile.header,
                         cols |-> psvfile.rows[i]]])

\* executemany(INSERT INTO "<table_name>" (remote, key, row, <header>) ...,
\*             [[remote, digest, i, *row] for i, row in enumerate(psvfile)])
InsertRows(rows, table_name, remote, key, psvfile) ==
    BagAddAll(rows, [i \in 1..Len(psvfile.rows) |->
                        [table |-> table_name, remote |-> remote, key |-> key,
                         row |-> i - 1, header |-> psvfile.header,
                         cols |-> psvfile.rows[i]]])

\* INSERT INTO "responses" (remote, path, timestamp, digest, source)
InsertResponse(responses, remote, path, timestamp, digest) ==
    BagAdd(responses, [remote |-> remote, path |-> path, timestamp |-> timestamp,
                       digest |-> digest, source |-> HTTP])

\* response.write_to_cache(cache_dir)
write_to_cache(cache, cache_dir, path, resp) ==
    [k \in DOMAIN cache \cup {<<cache_dir, path, resp.digest>>} |->
        IF k = <<cache_dir, path, resp.digest>> THEN resp.blob ELSE cache[k]]

\* get_psv with the write to the disk cache moved after the commit.
GetPsvRun_CacheLast(path, resp, done) ==
    LET psvfile == psv_loads(resp.blob)
        table_name == strip(path)
        r1 == IF done >= 2 THEN DeleteRows(db.rows, table_name, self_remote, resp.digest)
              ELSE db.rows
        r2 == IF done >= 3 THEN InsertRows(r1, table_name, self_remote, resp.digest, psvfile)
              ELSE r1
        p1 == IF done >= 4
              THEN InsertResponse(db.responses, self_remote, path, clock, resp.digest)
              ELSE db.responses
        c1 == IF done >= 6 THEN write_to_cache(state_cache, self_cache_dir, path, resp)
              ELSE state_cache
    IN [cache |-> c1, db |-> [rows |-> r2, responses |-> p1],
        committed |-> IF done >= 5 THEN [rows |-> r2, responses |-> p1] ELSE committed,
        ok |-> done >= 6, psvfile |-> psvfile]

\* Keg.get_psv as far as it gets: `done` of its six steps complete (the
\* fetch, the write to the disk cache, the DELETE, the INSERTs of the rows,
\* the INSERT of the response, the commit) and the next one raises.  Nothing
\* is rolled back: what was executed stays in the connection's transaction.
GetPsvRun(path, resp, done) ==
    LET psvfile == psv_loads(resp.blob)
        table_name == strip(path)
        c1 == IF done >= 2 THEN write_to_cache(state_cache, self_cache_dir, path, resp)
              ELSE state_cache
        r1 == IF done >= 3 THEN DeleteRows(db.rows, table_name, self_remote, resp.digest)
              ELSE db.rows
        r2 == IF done >= 4 THEN InsertRows(r1, table_name, self_remote, resp.digest, psvfile)
              ELSE r1
        p1 == IF done >= 5
              THEN InsertResponse(db.responses, self_remote, path, clock, resp.digest)
              ELSE db.responses
    IN [cache |-> c1, db |-> [rows |-> r2, responses |-> p1],
        committed |-> IF done >= 6 THEN [rows |-> r2, responses |-> p1] ELSE committed,
        ok |-> done >= 6, psvfile |-> psvfile]

\* Copies of the response records for (remote, path, digest).
RespCount(responses, remote, path, digest) ==
    LET S == {x \in DOMAIN responses :
                 x.remote = remote /\ x.path = path /\ x.digest = digest}
        RECURSIVE Sum(_)
        Sum(T) == IF T = {} THEN 0
                  ELSE LET x == CHOOSE y \in T : TRUE IN responses[x] + Sum(T \ {x})
    IN Sum(S)

\* Keg.get_psv(path)
get_psv(path, resp, tick, done) ==
    /\ net_calls < MaxFetches
    /\ LET run == GetPsvRun(path, resp, done)
       IN /\ state_cache' = run.cache
          /\ db' = run.db
          /\ committed' = run.committed
          /\ kret' = IF run.ok
                      THEN [op |-> "get_psv", ok |-> TRUE, path |-> path,
                            digest |-> resp.digest, header |-> run.psvfile.header,
                            rows |-> run.psvfile.rows,
                            nresp0 |-> RespCount(db.responses, self_remote, path,
                                                 resp.digest)]
                      ELSE [op |-> "get_psv", ok |-> FALSE]
    /\ net_calls' = net_calls + 1
    /\ clock' = clock + tick
    /\ UNCHANGED cdn_vars

\* Keg.get_cached_psv(path, key, cache_dir): StateCache(cache_dir).read(path,
\* key), then psv.loads; a blob that is not there is a not-found error.
CachedPsv(path, key, cache_dir) ==
    IF <<cache_dir, path, key>> \in DOMAIN state_cache
    THEN [ok |-> TRUE, psvfile |-> psv_loads(state_cache[<<cache_dir, path, key>>])]
    ELSE [ok |-> FALSE]

\* The query with ORDER BY timestamp ASC: the oldest record.
LatestDigests_Oldest(remote, path) ==
    LET S == {x \in DOMAIN db.responses : x.remote = remote /\ x.path = path}
    IN {x.digest : x \in {y \in S : \A z \in S : y.timestamp <= z.timestamp}}

\* SELECT digest FROM responses WHERE remote = ? AND path = ?
\* ORDER BY timestamp DESC LIMIT 1: the digests the query may give (ties in
\* the timestamp are broken by the store).
LatestDigests(remote, path) ==
    LET S == {x \in DOMAIN db.responses : x.remote = remote /\ x.path = path}
    IN {x.digest : x \in {y \in S : \A z \in S : z.timestamp <= y.timestamp}}

\* get_cached_cdns that never consults the store: always the live fetch.
get_cached_cdns_Live(remote, cache_dir) ==
    /\ UNCHANGED cdn_vars
    /\ net_calls < MaxFetches
    /\ \E resp \in KegResponses, tick \in 0..1, done \in 0..6 :
          LET run == GetPsvRun(CdnsPath, resp, done)
          IN /\ state_cache' = run.cache
             /\ db' = run.db
             /\ committed' = run.committed
             /\ clock' = clock + tick
             /\ kret' = [op |-> "get_cached_cdns", remote |-> remote,
                         cache_dir |-> cache_dir, had |-> FALSE, ok |-> run.ok,
                         val |-> IF run.ok THEN run.psvfile.rows ELSE << >>,
                         live |-> 1]
    /\ net_calls' = net_calls + 1

\* Keg.get_cached_cdns(remote, cache_dir).  With no record it falls back to
\* the live self.get_cdns(), which is get_psv("/cdns") of this orchestrator.
get_cached_cdns(remote, cache_dir) ==
    /\ UNCHANGED cdn_vars
    /\ IF LatestDigests(remote, CdnsPath) = {}
       THEN /\ net_calls < MaxFetches
            /\ \E resp \in KegResponses, tick \in 0..1, done \in 0..6 :
                  LET run == GetPsvRun(CdnsPath, resp, done)
                  IN /\ state_cache' = run.cache
                     /\ db' = run.db
                     /\ committed' = run.committed
                     /\ clock' = clock + tick
                     /\ kret' = [op |-> "get_cached_cdns", remote |-> remote,
                                 cache_dir |-> cache_dir, had |-> FALSE, ok |-> run.ok,
                                 val |-> IF run.ok THEN run.psvfile.rows ELSE << >>,
                                 live |-> 1]
            /\ net_calls' = net_calls + 1
       ELSE /\ \E digest \in LatestDigests(remote, CdnsPath) :
                  LET got == CachedPsv(CdnsPath, digest, cache_dir)
                  IN kret' = [op |-> "get_cached_cdns", remote |-> remote,
                              cache_dir |-> cache_dir, had |-> TRUE, ok |-> got.ok,
                              val |-> IF got.ok THEN got.psvfile.rows ELSE << >>,
                              live |-> 0]
            /\ UNCHANGED <<db, committed, state_cache, net_calls, clock>>

(* ---------------------------- partition_hash --------------------------- *)

\* Keys of at least 4 hex characters: all those over two characters up to
\* MaxKeyLen, and one long key over ten.
HashKeys ==
    UNION {[1..n -> {"a", "0"}] : n \in 4..MaxKeyLen}
    \cup {<<"a", "b", "c", "d", "e", "f", "0", "1", "2", "3">>}

\* A caller applies partition_hash to a key.
partition(self, key) ==
    /\ pc[self] = "idle"
    /\ hist' = [hist EXCEPT ![self] = ret[self]]
    /\ ret' = [ret EXCEPT ![self] = [op |-> "partition_hash", key |-> key,
                                     val |-> partition_hash(key)]]
    /\ UNCHANGED <<dirs, names, inodes, http_log, pc, req, obj, cf, rbuf, published>>
    /\ UNCHANGED keg_vars

(* ---------------------------- specifications --------------------------- *)

Step(self) ==
    \/ \E path \in ItemPaths : get_item(self, path)
    \/ \E key \in Keys : with_item(self, DataPath(key))
    \/ RemoteGet(self)
    \/ WrapperInit(self)
    \/ \E n \in (1..MaxChunk) \cup {-1} : ScopeRead(self, n)
    \/ ScopeWrite(self)
    \/ \E raised \in BOOLEAN : ScopeExit(self, raised)
    \/ Drain(self)
    \/ DrainWrite(self)
    \/ CacheFileClose(self)
    \/ Rename(self)
    \/ ObjClose(self)
    \/ LocalGet(self)
    \/ \E key \in Keys : has_config(self, key)
    \/ \E key \in Keys : has_data(self, key)
    \/ \E key \in Keys : has_index(self, key)
    \/ Crash(self)

\* The cache layer as the design assumes it is used: one thread of control,
\* hence at most one writer per key; a crashed run is followed by a new one.
Next == Step("p1")

Spec == Init /\ [][Next]_vars

\* The orchestrator: calls of Keg's methods, one after the other.
NextKeg ==
    \/ \E path \in PsvPaths, resp \in KegResponses, tick \in 0..1, done \in 0..6 :
          get_psv(path, resp, tick, done)
    \/ \E remote \in Remotes, cache_dir \in CacheDirs :
          get_cached_cdns(remote, cache_dir)

SpecKeg == Init /\ [][NextKeg]_vars

\* Two independent processes running get_item with no coordination.
NextHash == \E key \in HashKeys : partition("p1", key)

SpecHash == Init /\ [][NextHash]_vars

RaceStep(self) ==
    \/ \E path \in ItemPaths : get_item(self, path)
    \/ RemoteGet(self)
    \/ WrapperInit(self)
    \/ Drain(self)
    \/ DrainWrite(self)
    \/ CacheFileClose(self)
    \/ Rename(self)
    \/ ObjClose(self)
    \/ LocalGet(self)

NextRace == \E self \in Procs : RaceStep(self)

SpecRace == Init /\ [][NextRace]_vars

(* ------------------------- claims on the cache ------------------------- *)

IsTemp(f) == f[Len(f)] = ".keg_temp"

\* The cache file of a request path and its temp file, spelled out.
RealOf(path) == <<"cache">> \o path

TempOf(path) == <<"cache">> \o path \o <<".keg_temp">>

\* The bodies the origin served for `path` so far.
Served(path) == {http_log[i].body : i \in {j \in 1..Len(http_log) :
                    http_log[j].ok /\ http_log[j].url = Url(path)}}

\* A call that was cut short between the opening of the writer and the rename:
\* by a crash, or by a read error of the drain that reached the caller.
Interrupted(r) ==
    \/ r.op = "crash" /\ r.at \in {"scope", "release"}
    \/ r.op \in {"get_item", "with", "with_raised"} /\ ~r.ok /\ r.err = "read"

\* A release (close()) that a crash or a read error of its drain cut short
\* before the rename.
ReleaseFault(r) ==
    \/ r.op = "crash" /\ r.at = "release"
    \/ r.op \in {"get_item", "with", "with_raised"} /\ ~r.ok /\ r.err = "read"

\* A `with` whose release ran to its end.
Released(r) == r.op = "with" /\ r.err \in {"none", "caller"}

C2_Idempotent ==
    \A p \in Procs :
        (/\ ret[p].op = "get_item" /\ ret[p].ok
         /\ hist[p].op = "get_item" /\ hist[p].ok
         /\ hist[p].path = ret[p].path /\ hist[p].miss)
        => /\ ret[p].data = hist[p].data
           /\ ~ret[p].miss
           /\ ret[p].g1 - hist[p].g0 = 1

C2_Witness ==
    \E p \in Procs :
        /\ ret[p].op = "get_item" /\ ret[p].ok /\ ret[p].data = <<1, 2>>
        /\ hist[p].op = "get_item" /\ hist[p].ok
        /\ hist[p].path = ret[p].path /\ hist[p].miss

\* C3: after a release that a fault cut short before the rename, the
\* destination does not exist and the temp file does; after a release that
\* ran to its end, the destination exists and the temp file is gone.
C3_AtomicPublish ==
    \A p \in Procs :
        /\ (pc[p] = "idle" /\ ReleaseFault(ret[p]))
           => /\ RealOf(ret[p].path) \notin DOMAIN names
              /\ TempOf(ret[p].path) \in DOMAIN names
        /\ (pc[p] = "objclose" \/ (pc[p] = "local" /\ req[p].miss)
                \/ (pc[p] = "idle" /\ Released(ret[p])))
           => LET path == IF pc[p] = "idle" THEN ret[p].path ELSE req[p].path
              IN /\ RealOf(path) \in DOMAIN names
                 /\ TempOf(path) \notin DOMAIN names

\* A release cut short by a read error, with another item released normally.
C3_Witness ==
    \E p \in Procs, f \in DOMAIN published :
        /\ pc[p] = "idle" /\ ret[p].op = "get_item" /\ ~ret[p].ok /\ ret[p].err = "read"
        /\ f # RealOf(ret[p].path)
        /\ TempOf(ret[p].path) \in DOMAIN names
HasOps == {"has_config", "has_data", "has_index"}

\* The cache file has_config/has_data/has_index(key) answer for, spelled out.
HasFile(op, key) ==
    <<"cache", "/", IF op = "has_config" THEN "config" ELSE "data", "/",
      key[1], key[2], "/", key[3], key[4], "/">> \o key \o
    (IF op = "has_index" THEN <<".index">> ELSE << >>)

\* C8: a has_config/has_data/has_index(key) call issues no GET and changes
\* nothing on disk, and it answers TRUE exactly when an entry was published
\* at config/{partition(key)}, data/{partition(key)} or
\* data/{partition(key)}.index of the cache.
C8_HasLocalOnly ==
    [][\A p \in Procs :
          (ret'[p] # ret[p] /\ ret'[p].op \in HasOps)
          => /\ ret'[p].val = (HasFile(ret'[p].op, ret'[p].key) \in DOMAIN published)
             /\ UNCHANGED <<dirs, names, inodes, http_log, published>>]_vars

\* has_index answered TRUE while the data blob of the same key is absent and
\* a stray temp file of an interrupted fetch lies in the cache.
C8_Witness ==
    \E p \in Procs :
        /\ ret[p].op = "has_index" /\ ret[p].val
        /\ ~exists(DataPath(ret[p].key))
        /\ \E t \in DOMAIN names : IsTemp(t)

\* C9: when independent processes run get_item for the same path, the
\* destination, whenever it exists, holds the complete body one of the
\* writers was served: never a truncated, mixed or half-written file.
C9_RaceBenign ==
    \A path \in ItemPaths :
        RealOf(path) \in DOMAIN names => Content(RealOf(path)) \in Served(path)

\* The body of the latest successful GET for `path`.
LastServed(path) ==
    http_log[SetMax({j \in 1..Len(http_log) :
                        http_log[j].ok /\ http_log[j].url = Url(path)})].body

\* C10: an interrupted fetch leaves the temp file and no published entry;
\* the next get_item for the path then misses, issues one GET and returns
\* and publishes exactly the body of that GET (no byte of the stale temp file).
C10_CleanRefetch ==
    \A p \in Procs :
        /\ (pc[p] = "idle" /\ Interrupted(ret[p]))
           => /\ TempOf(ret[p].path) \in DOMAIN names
              /\ RealOf(ret[p].path) \notin DOMAIN names
        /\ (/\ ret[p].op = "get_item" /\ ret[p].ok
            /\ Interrupted(hist[p]) /\ hist[p].path = ret[p].path)
           => /\ ret[p].miss
              /\ ret[p].g1 - ret[p].g0 = 1
              /\ ret[p].data = LastServed(ret[p].path)
              /\ Content(RealOf(ret[p].path)) = LastServed(ret[p].path)

\* A fetch that crashed in its release, then a get_item for the same path
\* that returned the one-byte body.
C10_Witness ==
    \E p \in Procs :
        /\ ret[p].op = "get_item" /\ ret[p].ok /\ ret[p].data = <<3>>
        /\ hist[p].op = "crash" /\ hist[p].at = "release"
        /\ hist[p].path = ret[p].path
(* ---------------------- claims on the orchestrator --------------------- *)

\* The table named for a path: "/cdns" gives "cdns".
TableOf(path) == <<path[2]>>

\* The rows a table holds for (remote, key), as a bag.
RowsFor(rows, table_name, remote, key) ==
    [r \in {x \in DOMAIN rows :
               x.table = table_name /\ x.remote = remote /\ x.key = key} |-> rows[r]]

\* What one fetch puts in the table: one copy of each row, numbered from 0
\* in the order of the response.
FreshRows(r) ==
    [x \in {[table |-> TableOf(r.path), remote |-> "r1", key |-> r.digest,
             row |-> i - 1, header |-> r.header, cols |-> r.rows[i]] :
            i \in 1..Len(r.rows)} |-> 1]

\* Copies of the response records for (remote, digest), whatever the path.
RespCountAnyPath(responses, remote, digest) ==
    RespCount(responses, remote, <<"/", "cdns">>, digest)
    + RespCount(responses, remote, <<"/", "versions">>, digest)

\* A step that is a get_psv which returned.
FetchStep == kret'.op = "get_psv" /\ kret'.ok /\ net_calls' = net_calls + 1

\* A get_psv that returned, right after a get_psv of the same path that
\* returned the same digest.
SameDigestRefetch ==
    /\ FetchStep
    /\ kret.op = "get_psv" /\ kret.ok
    /\ kret'.path = kret.path /\ kret'.digest = kret.digest

\* C4 as stated: after the second of two fetches of the same (remote, path)
\* with the same digest there is one response record for (remote, digest),
\* and the table holds the rows of the second fetch only.
C4_OneRecord ==
    [][SameDigestRefetch
       => /\ RespCountAnyPath(db'.responses, "r1", kret'.digest) = 1
          /\ RowsFor(db'.rows, TableOf(kret'.path), "r1", kret'.digest) = FreshRows(kret')]_vars

\* What get_psv does in the case of C4: the second fetch adds one more
\* response record for (remote, path, digest), so that two are left, and the
\* table holds the rows of the second fetch only: none of the first, no
\* duplicate.
C4_RecordPerFetch ==
    [][SameDigestRefetch
       => /\ RespCount(db'.responses, "r1", kret'.path, kret'.digest)
               = RespCount(db.responses, "r1", kret'.path, kret'.digest) + 1
          /\ RespCount(db'.responses, "r1", kret'.path, kret'.digest) >= 2
          /\ RowsFor(db'.rows, TableOf(kret'.path), "r1", kret'.digest) = FreshRows(kret')
          /\ committed' = db']_vars

\* Digest D1 fetched again with other rows: two records, the new rows only.
C4_Witness ==
    /\ kret.op = "get_psv" /\ kret.ok /\ kret.path = <<"/", "cdns">>
    /\ kret.digest = "D1" /\ kret.rows = <<<<"cn", "h3">>>>
    /\ kret.nresp0 = 1
    /\ RespCount(committed.responses, "r1", <<"/", "cdns">>, "D1") = 2
    /\ RowsFor(committed.rows, <<"cdns">>, "r1", "D1") = FreshRows(kret)

\* C5: a fetch of the same (remote, path) with another digest adds its own
\* record and rows and leaves the record and the rows of the first digest as
\* they were.
C5_OtherDigestKept ==
    [][(/\ FetchStep
        /\ kret.op = "get_psv" /\ kret.ok
        /\ kret'.path = kret.path /\ kret'.digest # kret.digest)
       => /\ RowsFor(db'.rows, TableOf(kret.path), "r1", kret.digest) = FreshRows(kret)
          /\ RespCount(db'.responses, "r1", kret.path, kret.digest)
               = RespCount(db.responses, "r1", kret.path, kret.digest)
          /\ RespCount(db.responses, "r1", kret.path, kret.digest) >= 1
          /\ RowsFor(db'.rows, TableOf(kret'.path), "r1", kret'.digest) = FreshRows(kret')
          /\ RespCount(db'.responses, "r1", kret'.path, kret'.digest)
               = RespCount(db.responses, "r1", kret'.path, kret'.digest) + 1]_vars

\* D2 fetched after D1 for "/cdns": both records and both row sets are there.
C5_Witness ==
    /\ kret.op = "get_psv" /\ kret.ok /\ kret.path = <<"/", "cdns">> /\ kret.digest = "D2"
    /\ RespCount(committed.responses, "r1", <<"/", "cdns">>, "D1") = 1
    /\ RespCount(committed.responses, "r1", <<"/", "cdns">>, "D2") = 1
    /\ RowsFor(committed.rows, <<"cdns">>, "r1", "D2") = FreshRows(kret)
    /\ DOMAIN RowsFor(committed.rows, <<"cdns">>, "r1", "D1") # {}

\* The store holds a response record for (remote, "/cdns").
HasCdnsRecord(responses, remote) ==
    \E x \in DOMAIN responses : x.remote = remote /\ x.path = <<"/", "cdns">>

\* A step that is get_cached_cdns called on a store with a record for its remote.
CachedCdnsStep == kret'.op = "get_cached_cdns" /\ HasCdnsRecord(db.responses, kret'.remote)

\* C6 as stated: with a record for (remote, "/cdns") in the store,
\* get_cached_cdns(remote, cache_dir) sends no request and returns the rows
\* of the blob cached for the latest record.
C6_CachedList ==
    [][CachedCdnsStep
       => /\ net_calls' = net_calls
          /\ kret'.ok
          /\ \E d \in LatestDigests(kret'.remote, <<"/", "cdns">>) :
                /\ <<kret'.cache_dir, <<"/", "cdns">>, d>> \in DOMAIN state_cache
                /\ kret'.val = Tail(state_cache[<<kret'.cache_dir, <<"/", "cdns">>, d>>])]_vars

\* C6 amended: with such a record the call sends no request; it returns the
\* rows of the blob when cache_dir holds the blob of the latest record, and
\* fails (not found) when cache_dir does not.
C6_CachedListIfBlob ==
    [][CachedCdnsStep
       => /\ net_calls' = net_calls
          /\ UNCHANGED <<db, committed, state_cache>>
          /\ \E d \in LatestDigests(kret'.remote, <<"/", "cdns">>) :
                IF <<kret'.cache_dir, <<"/", "cdns">>, d>> \in DOMAIN state_cache
                THEN /\ kret'.ok
                     /\ kret'.val = Tail(state_cache[<<kret'.cache_dir, <<"/", "cdns">>, d>>])
                ELSE ~kret'.ok]_vars

\* The two-row list came back from the cache with no request sent.
C6_Witness ==
    /\ kret.op = "get_cached_cdns" /\ kret.had /\ kret.ok /\ kret.live = 0
    /\ kret.remote = "r1" /\ kret.cache_dir = "d1"
    /\ kret.val = <<<<"eu", "h1">>, <<"us", "h2">>>>

\* C7: a get_cached_cdns that found no record made one live fetch, and the
\* next get_cached_cdns with the same remote and cache_dir returns the same
\* list and sends no request.
C7_FallbackThenCached ==
    [][(/\ kret.op = "get_cached_cdns" /\ ~kret.had /\ kret.ok
        /\ kret'.op = "get_cached_cdns"
        /\ kret'.remote = kret.remote /\ kret'.cache_dir = kret.cache_dir)
       => /\ kret.live = 1
          /\ net_calls' = net_calls
          /\ kret'.ok
          /\ kret'.val = kret.val]_vars

\* The row sets one fetch of `path` answering digest d may insert.
Batches(path, d) ==
    {FreshRows([path |-> path, digest |-> d, header |-> Head(resp.blob),
                rows |-> Tail(resp.blob)]) : resp \in {x \in KegResponses : x.digest = d}}

\* C11: in every committed state of the store, for each path and digest
\* either the rows of one whole fetch and a response record are there, or
\* neither rows nor record.
C11_CommitAsUnit ==
    \A path \in PsvPaths, d \in Digests :
        LET rows == RowsFor(committed.rows, TableOf(path), "r1", d)
            n == RespCount(committed.responses, "r1", path, d)
        IN \/ DOMAIN rows = {} /\ n = 0
           \/ rows \in Batches(path, d) /\ n >= 1

(* ------------------- claims on the cache, continued -------------------- *)

\* C12: with one writer per key, for every path and in every step: an entry
\* that is present stays present with the same bytes and no further GET is
\* issued for it, and an entry that is present after the step holds a whole
\* body the origin served for that path (a reader never sees one being
\* written).
C12_AbsentToPresent ==
    [][\A path \in ItemPaths :
          /\ exists(path)
               => /\ exists(path)'
                  /\ Content(get_full_path(path))' = Content(get_full_path(path))
                  /\ Gets(path)' = Gets(path)
          /\ exists(path)' => Content(get_full_path(path))' \in Served(path)']_vars

\* A present entry was read again from local storage while another path had
\* been fetched in between.
C12_Witness ==
    /\ ret["p1"].op = "get_item" /\ ret["p1"].ok /\ ~ret["p1"].miss
    /\ ret["p1"].g1 = 1
    /\ Len(http_log) = 2
    /\ \A path \in ItemPaths : Gets(path) <= 1

\* C13: for keys of at least 4 hex characters partition_hash gives
\* key[0:2] "/" key[2:4] "/" key; two applications give the same path when
\* the keys are the same and different paths when they differ.
C13_Partition ==
    LET r == ret["p1"]
        h == hist["p1"]
    IN r.op = "partition_hash"
       => /\ Len(r.key) >= 4
          /\ r.val = <<r.key[1], r.key[2], "/", r.key[3], r.key[4], "/">> \o r.key
          /\ h.op = "partition_hash" => ((h.key = r.key) <=> (h.val = r.val))

\* "abcdef0123" gave "ab/cd/abcdef0123", after another key was partitioned.
C13_Witness ==
    /\ ret["p1"].op = "partition_hash"
    /\ ret["p1"].key = <<"a", "b", "c", "d", "e", "f", "0", "1", "2", "3">>
    /\ ret["p1"].val = <<"a", "b", "/", "c", "d", "/",
                         "a", "b", "c", "d", "e", "f", "0", "1", "2", "3">>
    /\ hist["p1"].op = "partition_hash"
    /\ hist["p1"].key = <<"a", "0", "a", "0">>

\* A step that makes the destination of the call in progress appear.
RenameStep ==
    /\ req["p1"].mode # "none"
    /\ ~exists(req["p1"].path)
    /\ get_full_path(req["p1"].path) \in DOMAIN names'

\* A step in which the release closes the upstream stream and goes on (to
\* line 93, or out of the `with`): not a raise, not a crash.
UpstreamCloseStep ==
    /\ obj["p1"].st # "none" /\ obj'["p1"].st = "none"
    /\ \/ pc'["p1"] = "local"
       \/ /\ ret'["p1"].op = "with" /\ ret'["p1"].err \in {"none", "caller"}

\* C14: in a release, by close() or by the end of a `with` scope, normal or
\* by an exception of the scope body, the rename happens when the upstream
\* is drained, all its bytes are in the temp file and the temp file is
\* closed, with the upstream still open; the upstream is closed when the
\* destination exists and the temp name is gone.
C14_ReleaseOrder ==
    [][/\ RenameStep
          => /\ obj["p1"].st = "open" /\ obj'["p1"].st = "open"
             /\ obj["p1"].pos = Len(obj["p1"].body)
             /\ rbuf["p1"] = << >>
             /\ cf["p1"].ino = 0
             /\ Content(temp_path(get_full_path(req["p1"].path))) = obj["p1"].body
       /\ UpstreamCloseStep
          => /\ exists(req["p1"].path)
             /\ temp_path(get_full_path(req["p1"].path)) \notin DOMAIN names
             /\ cf["p1"].ino = 0]_vars

\* A `with` whose body raised after reading one chunk was released in full:
\* the entry is published with the whole body.
C14_Witness ==
    /\ ret["p1"].op = "with" /\ ret["p1"].err = "caller"
    /\ exists(ret["p1"].path)
    /\ Content(get_full_path(ret["p1"].path)) = <<1, 2>>
    /\ temp_path(get_full_path(ret["p1"].path)) \notin DOMAIN names

\* C15: whenever read() has returned to the scope body, the temp file holds
\* exactly the bytes returned so far, in order; and when the release has
\* renamed, with reads of any sizes or none before it, the published file is
\* the whole upstream body.
C15_FaithfulTee ==
    LET real == get_full_path(req["p1"].path)
        temp == temp_path(real)
    IN /\ pc["p1"] = "scope"
          => /\ temp \in DOMAIN names
             /\ Content(temp) = SubSeq(obj["p1"].body, 1, obj["p1"].pos)
             /\ cf["p1"].off = obj["p1"].pos
       /\ pc["p1"] = "objclose"
          => /\ real \in DOMAIN names
             /\ Content(real) = obj["p1"].body

\* One byte was read in the scope and is in the temp file; the release has
\* pulled the rest and is about to write it.
C15_Witness ==
    /\ pc["p1"] = "drain_write" /\ req["p1"].mode = "with"
    /\ obj["p1"].body = <<1, 2>>
    /\ rbuf["p1"] = <<2>>
    /\ Content(temp_path(get_full_path(req["p1"].path))) = <<1>>

\* The entry for a path holds the body of an error response.
ErrorCached(path) ==
    /\ exists(path)
    /\ \E i \in 1..Len(http_log) :
          /\ http_log[i].url = Url(path) /\ http_log[i].ok
          /\ http_log[i].status # 200
          /\ http_log[i].body = Content(get_full_path(path))

\* C16: get_item does not look at the status.  It fails at the fetch only
\* when the GET itself failed, never because of the status of an answer; the
\* bytes it returns are a body the origin answered with, whatever the
\* status; and when the entry holds the body of an error response, get_item
\* serves that body and issues no GET.
C16_ErrorBodyCached ==
    LET r == ret["p1"]
    IN /\ (r.op = "get_item" /\ ~r.ok /\ r.err = "transport")
          => ~http_log[Len(http_log)].ok
       /\ (r.op = "get_item" /\ r.ok)
          => /\ r.data \in Served(r.path)
             /\ (~r.miss /\ ErrorCached(r.path)) => r.g1 = r.g0

\* The 404 body was fetched once, published, and then served from the cache.
C16_Witness ==
    /\ ret["p1"].op = "get_item" /\ ret["p1"].ok /\ ~ret["p1"].miss
    /\ ret["p1"].data = <<3>>
    /\ ErrorCached(ret["p1"].path)
    /\ Gets(ret["p1"].path) = 1
    /\ ret["p1"].g1 = ret["p1"].g0

(* ---------------- claims on the orchestrator, continued ---------------- *)

\* The response records of the store for (remote, "/cdns").
CdnsRecords(remote) ==
    {x \in DOMAIN db.responses : x.remote = remote /\ x.path = <<"/", "cdns">>}

\* C17: get_cached_cdns(remote, cache_dir) that returns a list on a store
\* with records for (remote, "/cdns") returns the rows of the blob of a
\* record with the greatest timestamp among them; records of another remote
\* or another path do not count: with none for (remote, "/cdns") the call
\* goes to the network.
C17_MostRecentRecord ==
    [][kret'.op = "get_cached_cdns"
       => /\ (CdnsRecords(kret'.remote) # {} /\ kret'.ok)
             => \E x \in CdnsRecords(kret'.remote) :
                   /\ \A y \in CdnsRecords(kret'.remote) : y.timestamp <= x.timestamp
                   /\ <<kret'.cache_dir, <<"/", "cdns">>, x.digest>> \in DOMAIN state_cache
                   /\ kret'.val = Tail(state_cache[<<kret'.cache_dir, <<"/", "cdns">>, x.digest>>])
          /\ CdnsRecords(kret'.remote) = {} => net_calls' = net_calls + 1]_vars

\* D1 was recorded at time 0 and D2 at time 1; the list is that of D2.
C17_Witness ==
    /\ kret.op = "get_cached_cdns" /\ kret.had /\ kret.ok /\ kret.remote = "r1"
    /\ kret.val = <<<<"eu", "h1">>>>
    /\ \E x, y \in CdnsRecords("r1") :
          /\ x.digest = "D1" /\ x.timestamp = 0
          /\ y.digest = "D2" /\ y.timestamp = 1

\* The rows of a table for one (remote, digest) are the n rows of a
\* response: ordinals 0..n-1, one copy each, row i holding the i-th row.
OrdinalsOf(rows, resprows) ==
    /\ {x.row : x \in DOMAIN rows} = 0..(Len(resprows) - 1)
    /\ Cardinality(DOMAIN rows) = Len(resprows)
    /\ \A x \in DOMAIN rows : rows[x] = 1 /\ x.cols = resprows[x.row + 1]

\* C18: a get_psv that returns leaves, for its (remote, digest) in the table
\* of its path, exactly the rows of the response it fetched, numbered
\* 0..n-1 in order, and on a store with no record for it one row in
\* responses; the rows of every other table or digest stay as they were.
C18_Ordinals ==
    [][FetchStep
       => /\ OrdinalsOf(RowsFor(db'.rows, TableOf(kret'.path), "r1", kret'.digest),
                        kret'.rows)
          /\ kret'.nresp0 = 0
               => RespCount(db'.responses, "r1", kret'.path, kret'.digest) = 1
          /\ \A path \in PsvPaths, d \in Digests :
                (path # kret'.path \/ d # kret'.digest)
                   => RowsFor(db'.rows, TableOf(path), "r1", d)
                        = RowsFor(db.rows, TableOf(path), "r1", d)]_vars

\* The first fetch, a 2-row "/cdns" of digest D1: rows 0 and 1 and one
\* response record, committed.
C18_Witness ==
    /\ kret.op = "get_psv" /\ kret.ok /\ kret.digest = "D1" /\ Len(kret.rows) = 2
    /\ net_calls = 1
    /\ {x.row : x \in DOMAIN committed.rows} = {0, 1}
    /\ \A x \in DOMAIN committed.rows :
          x.table = <<"cdns">> /\ x.remote = "r1" /\ x.key = "D1"
    /\ RespCountAnyPath(committed.responses, "r1", "D1") = 1

\* A temp file of `path` that is not the work of a call in progress: no
\* call for the path is running, or it has not opened its writer yet.
StrayTemp(path) ==
    /\ TempOf(path) \in DOMAIN names
    /\ req["p1"].path = path => pc["p1"] \in {"remote", "init", "local"}

\* C19 as stated: a get_item that fetched and returned after an interrupted
\* fetch of the same path leaves the stray temp file on disk.
C19_StrayTempOrphaned ==
    (/\ ret["p1"].op = "get_item" /\ ret["p1"].ok
     /\ Interrupted(hist["p1"]) /\ hist["p1"].path = ret["p1"].path)
    => TempOf(ret["p1"].path) \in DOMAIN names

\* C19 amended: nothing sweeps a stray temp file, it stays as it is until a
\* writer for the same path is opened; that writer reopens it, truncated,
\* as its own temp file, and its rename moves it to the destination: after a
\* get_item that fetched and returned no temp file of the path is left.
C19_StrayTempReused ==
    [][/\ \A path \in ItemPaths :
             StrayTemp(path)
             => IF pc["p1"] = "init" /\ req["p1"].path = path /\ pc'["p1"] # "idle"
                THEN /\ TempOf(path) \in DOMAIN names'
                     /\ names'[TempOf(path)] = names[TempOf(path)]
                     /\ cf'["p1"].ino = names[TempOf(path)]
                     /\ Content(TempOf(path))' = << >>
                ELSE /\ TempOf(path) \in DOMAIN names'
                     /\ Content(TempOf(path))' = Content(TempOf(path))
       /\ (ret'["p1"].op = "get_item" /\ ret'["p1"].ok /\ ret'["p1"].miss)
          => TempOf(ret'["p1"].path) \notin DOMAIN names']_vars

\* A fetch crashed in its scope with one byte in the temp file; the next
\* get_item of the path fetched and returned, and the temp file is gone.
C19_Witness ==
    /\ ret["p1"].op = "get_item" /\ ret["p1"].ok /\ ret["p1"].miss
    /\ hist["p1"].op = "crash" /\ hist["p1"].at = "scope"
    /\ hist["p1"].path = ret["p1"].path
    /\ TempOf(ret["p1"].path) \notin DOMAIN names
    /\ RealOf(ret["p1"].path) \in DOMAIN names

\* C20: every response record, committed or pending in the connection, has
\* the blob of its (path, digest) in the orchestrator's cache directory.
C20_BlobBeforeRecord ==
    /\ \A x \in DOMAIN committed.responses :
          <<"d1", x.path, x.digest>> \in DOMAIN state_cache
    /\ \A x \in DOMAIN db.responses :
          <<"d1", x.path, x.digest>> \in DOMAIN state_cache

\* A get_psv failed in its relational writes and left a blob with no
\* record; another returned and its committed record has its blob.
C20_Witness ==
    /\ \E x \in DOMAIN committed.responses :
          /\ x.path = <<"/", "cdns">> /\ x.digest = "D1"
          /\ <<"d1", x.path, x.digest>> \in DOMAIN state_cache
    /\ <<"d1", <<"/", "versions">>, "D2">> \in DOMAIN state_cache
    /\ \A x \in DOMAIN db.responses : x.path # <<"/", "versions">>
    /\ \A x \in DOMAIN db.rows : x.table # <<"versions">>
====
